---- MODULE Spec2Model ----
(***************************************************************************)
(* Matrix3<T> (src/Math/Matrix3.h): 3x3 column-major matrix for 2D         *)
(* transformations.  The scalar type T is modelled as the exact rationals, *)
(* a scalar being a normalised pair <<numerator, denominator>>; on exact    *)
(* scalars the library's equality (MathTypeTraits<T>::equals, operator==)  *)
(* is plain equality.  A vector is a tuple of scalars, a matrix a tuple of *)
(* column vectors (M[c] is column c-1 of the C++ matrix).                   *)
(***************************************************************************)
EXTENDS Integers, Sequences, FiniteSets, TLC

(* ---------------- bounds of the checked input space -------------------- *)
MaxCoord == 1      \* vector coordinates range over -MaxCoord..MaxCoord
MaxElem == 1       \* elements given to the 9-value constructor: 0..MaxElem
MaxTurns == 2      \* angles: quarter turns in -MaxTurns..MaxTurns ...
MaxAlpha == 1      \* ... plus -MaxAlpha..MaxAlpha times atan(3/4)
MaxSize == 2       \* view sizes: nonzero integers of magnitude <= MaxSize
MaxCalls == 2      \* invertedEuclidean() calls chained on one matrix
MaxWrite == 1      \* coordinates written through right()/up()/translation(): 0..MaxWrite

(* ---------------- scalar type T: exact rational arithmetic ------------- *)
Abs(i) == IF i < 0 THEN -i ELSE i

RECURSIVE GCD(_, _)
GCD(a, b) == IF b = 0 THEN a ELSE GCD(b, a % b)

Frac(n, d) ==
    LET s == IF d < 0 THEN -1 ELSE 1
        g == GCD(Abs(n), Abs(d))
    IN  <<(s * n) \div g, (s * d) \div g>>

T(i) == <<i, 1>>
Add(a, b) == Frac(a[1] * b[2] + b[1] * a[2], a[2] * b[2])
Neg(a) == <<-a[1], a[2]>>
Sub(a, b) == Add(a, Neg(b))
Mul(a, b) == Frac(a[1] * b[1], a[2] * b[2])
Div(a, b) == Frac(a[1] * b[2], a[2] * b[1])

(* MathTypeTraits<T>::equals on an exact scalar type *)
equals(a, b) == a = b

(* ---------------- Vector2 / Vector3 / Matrix<2,T> / Matrix<3,T> -------- *)
Vector3(v, z) == <<v[1], v[2], z>>
xy(v) == <<v[1], v[2]>>
dot(v) == Add(Mul(v[1], v[1]), Mul(v[2], v[2]))
VecNeg(v) == [i \in DOMAIN v |-> Neg(v[i])]
VecScale(s, v) == [i \in DOMAIN v |-> Mul(s, v[i])]
ScalarDiv(s, v) == [i \in DOMAIN v |-> Div(s, v[i])]

RECURSIVE SumTo(_, _)
SumTo(f, n) == IF n = 0 THEN T(0) ELSE Add(SumTo(f, n - 1), f[n])

(* element (col, row), zero-based as in the C++ operator() *)
At(mat, col, row) == mat[col + 1][row + 1]

(* matrix * vector and matrix * matrix, column-major *)
MatVec(a, v) ==
    [r \in DOMAIN a[1] |-> SumTo([k \in DOMAIN a |-> Mul(a[k][r], v[k])], Len(a))]
MatMul(a, b) == [j \in DOMAIN b |-> MatVec(a, b[j])]
MatSub(a, b) == [c \in DOMAIN a |-> [r \in DOMAIN a[c] |-> Sub(a[c][r], b[c][r])]]
transposed(a) == [c \in DOMAIN a[1] |-> [r \in DOMAIN a |-> a[r][c]]]
(* column vector times row vector: v * w.transposed() *)
VecMulRow(v, w) == [c \in DOMAIN w |-> [r \in DOMAIN v |-> Mul(v[r], w[c])]]

Identity2 == <<<<T(1), T(0)>>, <<T(0), T(1)>>>>
Identity3 == <<<<T(1), T(0), T(0)>>, <<T(0), T(1), T(0)>>, <<T(0), T(0), T(1)>>>>

(* ---------------- angles and std::sin / std::cos ----------------------- *)
(* An angle is q quarter turns plus a times alpha, alpha = atan(3/4), so   *)
(* that its sine and cosine are exact scalars.  A point of the unit circle *)
(* is a pair <<cosine, sine>>; angles add by complex multiplication.       *)
CisMul(x, y) ==
    <<Sub(Mul(x[1], y[1]), Mul(x[2], y[2])), Add(Mul(x[1], y[2]), Mul(x[2], y[1]))>>

QuarterCis(q) ==
    CASE q % 4 = 0 -> <<T(1), T(0)>>
      [] q % 4 = 1 -> <<T(0), T(1)>>
      [] q % 4 = 2 -> <<T(-1), T(0)>>
      [] q % 4 = 3 -> <<T(0), T(-1)>>

RECURSIVE AlphaCis(_)
AlphaCis(a) ==
    IF a = 0 THEN <<T(1), T(0)>>
    ELSE IF a > 0 THEN CisMul(AlphaCis(a - 1), <<Frac(4, 5), Frac(3, 5)>>)
    ELSE CisMul(AlphaCis(a + 1), <<Frac(4, 5), Frac(-3, 5)>>)

Cis(angle) == CisMul(QuarterCis(angle.q), AlphaCis(angle.a))
sin(angle) == Cis(angle)[2]
cos(angle) == Cis(angle)[1]
NegAngle(angle) == [q |-> -angle.q, a |-> -angle.a]
QuarterTurn == [q |-> 1, a |-> 0]

(* ---------------- contract checks (CORRADE_ASSERT) --------------------- *)
(* A call that can fail its contract yields the failure it signals (or     *)
(* "none") and the value it returns.                                        *)
Returned(value) == [err |-> "none", value |-> value]
Failed(failure, returnValue) == [err |-> failure, value |-> returnValue]

(* ---------------- Matrix3<T> ------------------------------------------- *)
(* Matrix3(T first, U... next): the nine elements in column-major order *)
Matrix3(e) == <<<<e[1], e[2], e[3]>>, <<e[4], e[5], e[6]>>, <<e[7], e[8], e[9]>>>>

(* Matrix3(ZeroType) *)
Zero3 == [c \in 1..3 |-> [r \in 1..3 |-> T(0)]]

(* Matrix3(IdentityType = Identity, T value = T(1)) *)
Matrix3Identity(value) ==
    Matrix3(<<value, T(0), T(0),
              T(0), value, T(0),
              T(0), T(0), value>>)

(* variant: the vector laid out as if the constructor were row-major *)
translation_rowMajor(vector) ==
    Matrix3(<<T(1), T(0), vector[1],
              T(0), T(1), vector[2],
              T(0), T(0), T(1)>>)

translation(vector) ==
    Matrix3(<<T(1), T(0), T(0),
              T(0), T(1), T(0),
              vector[1], vector[2], T(1)>>)

scaling(vector) ==
    Matrix3(<<vector[1], T(0), T(0),
              T(0), vector[2], T(0),
              T(0), T(0), T(1)>>)

(* variant: clockwise rotation (sign of the sine terms exchanged) *)
rotation_clockwise(angle) ==
    LET sine == sin(angle)
        cosine == cos(angle)
    IN  Matrix3(<<cosine, Neg(sine), T(0),
                  sine, cosine, T(0),
                  T(0), T(0), T(1)>>)

(* variant: second column not negated *)
rotation_noNegation(angle) ==
    LET sine == sin(angle)
        cosine == cos(angle)
    IN  Matrix3(<<cosine, sine, T(0),
                  sine, cosine, T(0),
                  T(0), T(0), T(1)>>)

rotation(angle) ==
    LET sine == sin(angle)
        cosine == cos(angle)
    IN  Matrix3(<<cosine, sine, T(0),
                  Neg(sine), cosine, T(0),
                  T(0), T(0), T(1)>>)

(* from(const Vector3&, const Vector3&, const Vector3&): the three columns *)
fromColumns(first, second, third) == <<first, second, third>>

(* variant: translation column extended by T(0) like the other two *)
from_zeroCorner(rotScaling, transl) ==
    fromColumns(Vector3(rotScaling[1], T(0)),
                Vector3(rotScaling[2], T(0)),
                Vector3(transl, T(0)))

from(rotScaling, transl) ==
    fromColumns(Vector3(rotScaling[1], T(0)),
                Vector3(rotScaling[2], T(0)),
                Vector3(transl, T(1)))

(* variant: the normal is not checked *)
reflection_unchecked(normal) ==
    Returned(from(MatSub(Identity2,
                         VecMulRow(VecScale(T(2), normal), normal)),
                  <<T(0), T(0)>>))

(* variant: factor 2 missing, I - n*nT *)
reflection_noFactor(normal) ==
    IF ~equals(dot(normal), T(1))
    THEN Failed("InvalidNormal", Matrix3Identity(T(1)))
    ELSE Returned(from(MatSub(Identity2, VecMulRow(normal, normal)),
                       <<T(0), T(0)>>))

reflection(normal) ==
    IF ~equals(dot(normal), T(1))
    THEN Failed("InvalidNormal", Matrix3Identity(T(1)))
    ELSE Returned(from(MatSub(Identity2,
                              VecMulRow(VecScale(T(2), normal), normal)),
                       <<T(0), T(0)>>))

(* variant: 1/size instead of 2/size *)
projection_unit(size) == scaling(ScalarDiv(T(1), size))

projection(size) == scaling(ScalarDiv(T(2), size))

rotationScaling(self) == <<xy(self[1]), xy(self[2])>>

(* read-only accessors right() const, up() const, translation() const *)
right(self) == xy(self[1])
up(self) == xy(self[2])
translationOf(self) == xy(self[3])

(* assignment through the references right(), up(), translation() *)
SetXY(column, w) == <<w[1], w[2], column[3]>>
assignRight(self, w) == [self EXCEPT ![1] = SetXY(self[1], w)]
assignUp(self, w) == [self EXCEPT ![2] = SetXY(self[2], w)]
(* variant: the whole column is assigned, as Vector3(w, 1) *)
assignTranslation_column(self, w) == [self EXCEPT ![3] = Vector3(w, T(1))]
assignTranslation(self, w) == [self EXCEPT ![3] = SetXY(self[3], w)]

(* variant: translation not negated *)
invertedEuclidean_noNegation(self) ==
    IF ~(At(self, 0, 2) = T(0) /\ At(self, 1, 2) = T(0) /\ At(self, 2, 2) = T(1))
    THEN Failed("NotEuclidean", Matrix3Identity(T(1)))
    ELSE LET inverseRotation == transposed(rotationScaling(self))
         IN  IF ~(MatMul(inverseRotation, rotationScaling(self)) = Identity2)
             THEN Failed("NotEuclidean", Matrix3Identity(T(1)))
             ELSE Returned(from(inverseRotation,
                                MatVec(inverseRotation, translationOf(self))))

(* variant: only the last row is checked, not the block *)
invertedEuclidean_rowOnly(self) ==
    IF ~(At(self, 0, 2) = T(0) /\ At(self, 1, 2) = T(0) /\ At(self, 2, 2) = T(1))
    THEN Failed("NotEuclidean", Matrix3Identity(T(1)))
    ELSE LET inverseRotation == transposed(rotationScaling(self))
         IN  Returned(from(inverseRotation,
                           MatVec(inverseRotation, VecNeg(translationOf(self)))))

(* variant: the block of the result is not the transposed one *)
invertedEuclidean_noTranspose(self) ==
    IF ~(At(self, 0, 2) = T(0) /\ At(self, 1, 2) = T(0) /\ At(self, 2, 2) = T(1))
    THEN Failed("NotEuclidean", Matrix3Identity(T(1)))
    ELSE LET inverseRotation == transposed(rotationScaling(self))
         IN  IF ~(MatMul(inverseRotation, rotationScaling(self)) = Identity2)
             THEN Failed("NotEuclidean", Matrix3Identity(T(1)))
             ELSE Returned(from(rotationScaling(self),
                                MatVec(inverseRotation, VecNeg(translationOf(self)))))

invertedEuclidean(self) ==
    IF ~(At(self, 0, 2) = T(0) /\ At(self, 1, 2) = T(0) /\ At(self, 2, 2) = T(1))
    THEN Failed("NotEuclidean", Matrix3Identity(T(1)))
    ELSE LET inverseRotation == transposed(rotationScaling(self))
         IN  IF ~(MatMul(inverseRotation, rotationScaling(self)) = Identity2)
             THEN Failed("NotEuclidean", Matrix3Identity(T(1)))
             ELSE Returned(from(inverseRotation,
                                MatVec(inverseRotation, VecNeg(translationOf(self)))))

(* Matrix3 * Point2D: the point carries the homogeneous coordinate 1 *)
Point2D(x, y) == <<x, y, T(1)>>
MulPoint(self, point) == MatVec(self, point)

(* ---------------- input spaces ----------------------------------------- *)
Coords == {T(i) : i \in -MaxCoord..MaxCoord}
Vectors == {<<x, y>> : x \in Coords, y \in Coords}

(* elements of rotation/scaling blocks and of normals: 0, +-1 and the      *)
(* legs of the 3-4-5 triangle, so that orthogonal blocks and unit normals  *)
(* other than the axis-aligned ones occur beside the invalid ones          *)
UnitScalars ==
    {T(-1), T(0), T(1), Frac(3, 5), Frac(-3, 5), Frac(4, 5), Frac(-4, 5)}
Blocks == {<<<<a, b>>, <<c, d>>>> : a \in UnitScalars, b \in UnitScalars,
                                    c \in UnitScalars, d \in UnitScalars}
Normals == {<<x, y>> : x \in UnitScalars \cup {T(2), Frac(1, 2)},
                       y \in UnitScalars \cup {T(2), Frac(1, 2)}}
Angles == [q : -MaxTurns..MaxTurns, a : -MaxAlpha..MaxAlpha]
SizeScalars == {T(i) : i \in (-MaxSize..MaxSize) \ {0}} \cup {Frac(1, 2), Frac(-2, 3)}
Sizes == {<<x, y>> : x \in SizeScalars, y \in SizeScalars}
Elements == {T(i) : i \in 0..MaxElem}
WriteVectors == {<<T(x), T(y)>> : x \in 0..MaxWrite, y \in 0..MaxWrite}

Inputs ==
    [kind : {"translation"}, vector : Vectors]
    \cup [kind : {"scaling"}, vector : Vectors]
    \cup [kind : {"rotation"}, angle : Angles]
    \cup [kind : {"reflection"}, normal : Normals]
    \cup [kind : {"projection"}, size : Sizes]
    \cup [kind : {"from"}, rotationScaling : Blocks, translation : Vectors]
    \cup [kind : {"Matrix3"}, elements : [1..9 -> Elements]]

(* matrices the accessor scenario starts from: the default (identity)      *)
(* matrix, the zero matrix, and matrices of nine distinct elements         *)
AccessMatrices ==
    {Matrix3Identity(T(1)), Zero3}
    \cup {Matrix3([i \in 1..9 |-> T(10 * i + e)]) : e \in 0..MaxElem}

None == <<>>
NoWrites == [right |-> None, up |-> None, translation |-> None]

(* ---------------- state ------------------------------------------------ *)
VARIABLES
    pc,      \* "call": inputs chosen, factory not yet called; "done"; "failed"
    in,      \* the inputs of the construction
    m,       \* the matrix: the value the last call returned / the object written to
    recv,    \* the matrix before the last member call or write
    err,     \* contract failure signalled by the last call, or "none"
    last,    \* name of the last operation
    ncalls,  \* number of invertedEuclidean() calls made
    wr       \* last vector written through each mutable reference, or None

vars == <<pc, in, m, recv, err, last, ncalls, wr>>

Init ==
    /\ pc = "call"
    /\ in \in Inputs
    /\ m = Matrix3Identity(T(1))
    /\ recv = Matrix3Identity(T(1))
    /\ err = "none"
    /\ last = "none"
    /\ ncalls = 0
    /\ wr = NoWrites

(* m = Matrix3::<factory>(inputs), a factory that cannot fail *)
Construct(kind, value) ==
    /\ pc = "call"
    /\ in.kind = kind
    /\ m' = value
    /\ pc' = "done"
    /\ err' = "none"
    /\ last' = kind
    /\ UNCHANGED <<in, recv, ncalls, wr>>

(* a call that may fail its contract *)
Call(name, receiver, out) ==
    /\ m' = out.value
    /\ recv' = receiver
    /\ err' = out.err
    /\ pc' = IF out.err = "none" THEN "done" ELSE "failed"
    /\ last' = name
    /\ UNCHANGED <<in, wr>>

Translation == Construct("translation", translation(in.vector))
Scaling == Construct("scaling", scaling(in.vector))
Rotation == Construct("rotation", rotation(in.angle))
Projection == Construct("projection", projection(in.size))
From == Construct("from", from(in.rotationScaling, in.translation))
Constructor == Construct("Matrix3", Matrix3(in.elements))

Reflection ==
    /\ pc = "call"
    /\ in.kind = "reflection"
    /\ Call("reflection", m, reflection(in.normal))
    /\ UNCHANGED ncalls

InvertedEuclidean ==
    /\ pc = "done"
    /\ ncalls < MaxCalls
    /\ Call("invertedEuclidean", m, invertedEuclidean(m))
    /\ ncalls' = ncalls + 1

Next ==
    \/ Translation
    \/ Scaling
    \/ Rotation
    \/ Reflection
    \/ Projection
    \/ From
    \/ Constructor
    \/ InvertedEuclidean

Spec == Init /\ [][Next]_vars

(* ---------------- writes through the mutable references --------------- *)
InitAccess ==
    /\ pc = "done"
    /\ m \in AccessMatrices
    /\ in = [kind |-> "Matrix3", matrix |-> m]
    /\ recv = m
    /\ err = "none"
    /\ last = "none"
    /\ ncalls = 0
    /\ wr = NoWrites

Write(name, value, w) ==
    /\ pc = "done"
    /\ recv' = m
    /\ m' = value
    /\ last' = name
    /\ wr' = [wr EXCEPT ![name] = w]
    /\ UNCHANGED <<pc, in, err, ncalls>>

WriteRight == \E w \in WriteVectors : Write("right", assignRight(m, w), w)
WriteUp == \E w \in WriteVectors : Write("up", assignUp(m, w), w)
WriteTranslation ==
    \E w \in WriteVectors : Write("translation", assignTranslation(m, w), w)

NextAccess ==
    \/ WriteRight
    \/ WriteUp
    \/ WriteTranslation

SpecAccess == InitAccess /\ [][NextAccess]_vars

TypeOK ==
    /\ pc \in {"call", "done", "failed"}
    /\ err \in {"none", "InvalidNormal", "NotEuclidean"}
    /\ ncalls \in 0..MaxCalls

(* ---------------- properties ------------------------------------------- *)
LastRow(mat) == <<mat[1][3], mat[2][3], mat[3][3]>>
Block(mat) == <<<<mat[1][1], mat[1][2]>>, <<mat[2][1], mat[2][2]>>>>
Orthogonal(r) == MatMul(transposed(r), r) = Identity2
AffineRow == <<T(0), T(0), T(1)>>
(* the matrix with block r, translation t and last row (0,0,1) *)
Affine(r, t) ==
    <<<<r[1][1], r[1][2], T(0)>>, <<r[2][1], r[2][2], T(0)>>, <<t[1], t[2], T(1)>>>>
Euclidean(mat) == LastRow(mat) = AffineRow /\ Orthogonal(Block(mat))

(* C1: invertedEuclidean() on M = from(R, t) with orthogonal R signals no  *)
(* contract failure and M * M.invertedEuclidean() is the identity.         *)
C1_RightInverse ==
    (last = "invertedEuclidean" /\ Euclidean(recv))
        => /\ err = "none"
           /\ MatMul(recv, m) = Identity3

C1_Witness ==
    /\ last = "invertedEuclidean"
    /\ ncalls = 1
    /\ in.kind = "from"
    /\ in.rotationScaling = <<<<Frac(4, 5), Frac(3, 5)>>, <<Frac(-3, 5), Frac(4, 5)>>>>
    /\ in.translation = <<T(1), T(-1)>>
    /\ recv = Affine(in.rotationScaling, in.translation)
    /\ err = "none"
    /\ MatMul(recv, m) = Identity3

(* C2: invertedEuclidean() signals NotEuclidean on every matrix whose last *)
(* row is not (0,0,1) and on every matrix whose block is not orthogonal;   *)
(* the call does not complete as a valid inversion.                        *)
C2_NotEuclideanSignalled ==
    (last = "invertedEuclidean" /\ ~Euclidean(recv))
        => /\ err = "NotEuclidean"
           /\ pc = "failed"

C2_Witness ==
    /\ last = "invertedEuclidean"
    /\ in.kind = "from"
    /\ LastRow(recv) = AffineRow
    /\ ~Orthogonal(Block(recv))
    /\ MatMul(Block(recv), Block(recv)) = Identity2
    /\ err = "NotEuclidean"

C2_WitnessLastRow ==
    /\ last = "invertedEuclidean"
    /\ LastRow(recv) = <<T(1), T(0), T(1)>>
    /\ Orthogonal(Block(recv))
    /\ err = "NotEuclidean"

(* C3: on M = from(R, t) with orthogonal R, M.invertedEuclidean() again    *)
(* has last row (0,0,1) and an orthogonal block, and inverting it once     *)
(* more gives M back.                                                      *)
C3_Involution ==
    (last = "invertedEuclidean" /\ in.kind = "from"
        /\ Orthogonal(in.rotationScaling))
        => /\ err = "none"
           /\ Euclidean(m)
           /\ ncalls = 2 => m = Affine(in.rotationScaling, in.translation)

C3_Witness ==
    /\ last = "invertedEuclidean"
    /\ ncalls = 2
    /\ in.kind = "from"
    /\ in.rotationScaling = <<<<Frac(3, 5), Frac(4, 5)>>, <<Frac(-4, 5), Frac(3, 5)>>>>
    /\ in.translation = <<T(1), T(0)>>
    /\ err = "none"
    /\ m = Affine(in.rotationScaling, in.translation)
    /\ recv # m

(* C4: reflection(normal) signals InvalidNormal exactly when the dot       *)
(* product of the normal with itself is not 1.                             *)
C4_InvalidNormalSignalled ==
    last = "reflection"
        => /\ dot(in.normal) # T(1) => (err = "InvalidNormal" /\ pc = "failed")
           /\ dot(in.normal) = T(1) => (err = "none" /\ pc = "done")

C4_Witness ==
    /\ last = "reflection"
    /\ in.normal = <<T(0), T(0)>>
    /\ err = "InvalidNormal"

C4_WitnessUnit ==
    /\ last = "reflection"
    /\ in.normal = <<Frac(3, 5), Frac(-4, 5)>>
    /\ err = "none"

(* C5: for a unit normal n, reflection(n) is the matrix with block         *)
(* I - 2*n*nT, zero translation and last row (0,0,1), and it is its own    *)
(* inverse.                                                                *)
C5_ReflectionSelfInverse ==
    (last = "reflection" /\ dot(in.normal) = T(1))
        => LET n == in.normal
               two == T(2)
               b == <<<<Sub(T(1), Mul(two, Mul(n[1], n[1]))),
                        Neg(Mul(two, Mul(n[1], n[2])))>>,
                      <<Neg(Mul(two, Mul(n[1], n[2]))),
                        Sub(T(1), Mul(two, Mul(n[2], n[2])))>>>>
           IN  /\ m = Affine(b, <<T(0), T(0)>>)
               /\ MatMul(m, m) = Identity3

C5_Witness ==
    /\ last = "reflection"
    /\ in.normal = <<Frac(3, 5), Frac(4, 5)>>
    /\ err = "none"
    /\ m # Identity3
    /\ MatMul(m, m) = Identity3

(* C6: from(R, t).rotationScaling() = R, from(R, t).translation() = t and  *)
(* the last row of from(R, t) is (0,0,1), for every R and t.               *)
C6_FromRoundTrip ==
    last = "from"
        => /\ rotationScaling(m) = in.rotationScaling
           /\ translationOf(m) = in.translation
           /\ <<At(m, 0, 2), At(m, 1, 2), At(m, 2, 2)>> = AffineRow

C6_Witness ==
    /\ last = "from"
    /\ in.rotationScaling = <<<<T(1), Frac(3, 5)>>, <<T(-1), T(0)>>>>
    /\ in.translation = <<T(-1), T(1)>>
    /\ ~Orthogonal(rotationScaling(m))
    /\ translationOf(m) = in.translation

(* C7: rotation(theta) has columns (cos, sin, 0), (-sin, cos, 0), (0,0,1); *)
(* rotation(theta) * rotation(-theta) is the identity and rotation(pi/2)   *)
(* maps the point (1,0) to (0,1).                                          *)
C7_RotationInverse ==
    last = "rotation"
        => /\ m = <<<<cos(in.angle), sin(in.angle), T(0)>>,
                    <<Neg(sin(in.angle)), cos(in.angle), T(0)>>,
                    AffineRow>>
           /\ MatMul(m, rotation(NegAngle(in.angle))) = Identity3
           /\ in.angle = QuarterTurn
                => MulPoint(m, Point2D(T(1), T(0))) = Point2D(T(0), T(1))

C7_Witness ==
    /\ last = "rotation"
    /\ in.angle = [q |-> 1, a |-> 1]
    /\ m[1] = <<Frac(-3, 5), Frac(4, 5), T(0)>>
    /\ MatMul(m, rotation(NegAngle(in.angle))) = Identity3

C7_WitnessQuarter ==
    /\ last = "rotation"
    /\ in.angle = QuarterTurn
    /\ MulPoint(m, Point2D(T(1), T(0))) = Point2D(T(0), T(1))

(* C8: projection(size) = scaling(2/size): diagonal (2/size.x, 2/size.y,   *)
(* 1), all other elements zero; projection((2,2)) is the identity.         *)
C8_Projection ==
    last = "projection"
        => /\ m = <<<<Div(T(2), in.size[1]), T(0), T(0)>>,
                    <<T(0), Div(T(2), in.size[2]), T(0)>>,
                    <<T(0), T(0), T(1)>>>>
           /\ m = scaling(<<Div(T(2), in.size[1]), Div(T(2), in.size[2])>>)
           /\ in.size = <<T(2), T(2)>>
                => (m = scaling(<<T(1), T(1)>>) /\ m = Identity3)

C8_Witness ==
    /\ last = "projection"
    /\ in.size = <<T(-1), Frac(1, 2)>>
    /\ m[1][1] = T(-2)
    /\ m[2][2] = T(4)

C8_WitnessScenario ==
    /\ last = "projection"
    /\ in.size = <<T(2), T(2)>>
    /\ m = Identity3

(* C9: translation(v).translation() = v, its rotation/scaling block is the *)
(* identity and its last row is (0,0,1): translation(v) = from(I, v).      *)
C9_Translation ==
    last = "translation"
        => /\ translationOf(m) = in.vector
           /\ rotationScaling(m) = Identity2
           /\ LastRow(m) = AffineRow
           /\ m = from(Identity2, in.vector)

C9_Witness ==
    /\ last = "translation"
    /\ in.vector = <<T(1), T(-1)>>
    /\ translationOf(m) = <<T(1), T(-1)>>

(* C10: a write through translation() / right() / up() changes exactly the *)
(* first two components of column 2 / 0 / 1 and nothing else; the          *)
(* read-only accessors return the last vector written, and the             *)
(* rotation/scaling block changes only by writes through right() or up().  *)
Written(name, initial) == IF wr[name] = None THEN initial ELSE wr[name]

C10_WriteFrame ==
    /\ last = "right"
         => /\ right(m) = wr.right
            /\ m[1][3] = recv[1][3] /\ m[2] = recv[2] /\ m[3] = recv[3]
    /\ last = "up"
         => /\ up(m) = wr.up
            /\ m[2][3] = recv[2][3] /\ m[1] = recv[1] /\ m[3] = recv[3]
    /\ last = "translation"
         => /\ translationOf(m) = wr.translation
            /\ m[3][3] = recv[3][3] /\ m[1] = recv[1] /\ m[2] = recv[2]
            /\ rotationScaling(m) = rotationScaling(recv)
    /\ right(m) = Written("right", xy(in.matrix[1]))
    /\ up(m) = Written("up", xy(in.matrix[2]))
    /\ translationOf(m) = Written("translation", xy(in.matrix[3]))
    /\ rotationScaling(m) = <<Written("right", xy(in.matrix[1])),
                              Written("up", xy(in.matrix[2]))>>
    /\ LastRow(m) = LastRow(in.matrix)

C10_Witness ==
    /\ last = "translation"
    /\ wr.right = <<T(0), T(1)>>
    /\ wr.up = <<T(1), T(1)>>
    /\ wr.translation = <<T(1), T(0)>>
    /\ in.matrix = Matrix3([i \in 1..9 |-> T(10 * i)])
    /\ m = <<<<T(0), T(1), T(30)>>, <<T(1), T(1), T(60)>>, <<T(1), T(0), T(90)>>>>
====
